---- MODULE Spec2Model ----
(***************************************************************************)
(* The webpack build-configuration code of the repository:                 *)
(*   - the configuration factory, module.exports = (env) => [...]          *)
(*     (src/unnamed/part_000), which returns four named variants;          *)
(*   - the single configuration of src/webpack.config.js, whose helper     *)
(*     functions carry the same names; their definitions here end in Cfg.  *)
(* A JavaScript object that the code creates and hands out by reference    *)
(* is a cell of heap; an array of loaders or rules is a sequence.  A `use` *)
(* entry written as a bare string "x" is the record [loader |-> "x"],      *)
(* which is how webpack itself reads it.  A regular expression is the      *)
(* string of its source text.                                              *)
(***************************************************************************)
EXTENDS Integers, Sequences, FiniteSets, TLC

VARIABLES file, MODE, isDev, MODE_DEV, heap, exported, call, pushes, lastPush

vars == <<file, MODE, isDev, MODE_DEV, heap, exported, call, pushes, lastPush>>

(***************************************************************************)
(* Bounds of the model.                                                    *)
(***************************************************************************)
\* longest flag list drawn with arbitrary order and repetition
MaxLen == 3
\* longest preset list handed directly to getStyleLoaders
MaxPresets == 3
\* rules a consumer pushes onto the returned rule tables
MaxPush == 2

(***************************************************************************)
(* JavaScript values: booleans, strings and undefined, with ===, ?? and    *)
(* truthiness.                                                             *)
(***************************************************************************)
Undefined == [type |-> "undefined"]

Str(s) == [type |-> "string", val |-> s]

Bool(b) == [type |-> "boolean", val |-> b]

StrictEq(a, b) ==
  /\ a.type = b.type
  /\ \/ a.type = "undefined"
     \/ a.val = b.val

Truthy(a) ==
  CASE a.type = "boolean" -> a.val
    [] a.type = "string" -> a.val # ""
    [] OTHER -> FALSE

\* a || b
LogicalOr(a, b) == IF Truthy(a) THEN a ELSE b

\* a ?? b : b only when a is null or undefined
Nullish(a, b) == IF a.type = "undefined" THEN b ELSE a

\* an argument that is the value undefined inside a list of flag strings
undefinedArg == "<undefined>"

RECURSIVE findIndexFrom(_, _, _)
findIndexFrom(arr, x, i) ==
  IF i > Len(arr) THEN -1
  ELSE IF arr[i] = x THEN i - 1
  ELSE findIndexFrom(arr, x, i + 1)

\* arr.findIndex((ext) => ext === x), but looking at the first element only
findIndexFirstOnly(arr, x) == IF Len(arr) > 0 /\ arr[1] = x THEN 0 ELSE -1

\* arr.findIndex((ext) => ext === x): the 0-based index of the first match, or -1
findIndex(arr, x) == findIndexFrom(arr, x, 1)

\* { ...base, <the properties of over> }
Spread(base, over) ==
  [f \in DOMAIN base \cup DOMAIN over |->
     IF f \in DOMAIN over THEN over[f] ELSE base[f]]

(***************************************************************************)
(* The factory's closure (src/unnamed/part_000).                           *)
(***************************************************************************)
isDevOf(mode) ==
  StrictEq(mode, Str("development")) \/ StrictEq(mode, Str("dev"))

MODE_DEV_or(dev) == LogicalOr(Bool(dev), Str("development"))

MODE_DEV_of(dev) == Nullish(Bool(dev), Str("development"))

modeOf(modeDev) == IF Truthy(modeDev) THEN "development" ELSE "production"

getBabelOpts(preset) ==
  LET opts == [presets |-> <<"@babel/preset-env">>]
  IN  IF Len(preset) > 0
        THEN [opts EXCEPT !.presets = @ \o preset]
        ELSE opts

getOptimization(dev) ==
  LET config == [splitChunks |-> [chunks |-> "all"]]
  IN  IF ~dev
        THEN Spread(config, [minimizer |-> <<"TerserWebpackPlugin">>])
        ELSE config

cssModulesLoader ==
  [loader |-> "css-loader",
   options |-> [modules |-> [auto |-> "/\\.module\\.\\w+/i",
                             namedExport |-> FALSE,
                             exportLocalsConvention |-> "as-is",
                             localIdentName |-> "[folder]__[local]___[hash:base64:5]"]]]

getStyleLoadersAlwaysInject(preset, dev) ==
  <<[loader |-> "style-loader"]>>
  \o (IF findIndex(preset, "css-modules") # -1
        THEN <<cssModulesLoader>> ELSE <<[loader |-> "css-loader"]>>)
  \o (IF findIndex(preset, "tailwind") # -1 THEN <<[loader |-> "postcss-loader"]>> ELSE <<>>)
  \o (IF findIndex(preset, "scss") # -1 THEN <<[loader |-> "sass-loader"]>> ELSE <<>>)

getStyleLoadersSassFirst(preset, dev) ==
  <<[loader |-> IF dev THEN "style-loader" ELSE "MiniCssExtractPlugin.loader"]>>
  \o (IF findIndex(preset, "css-modules") # -1
        THEN <<cssModulesLoader>> ELSE <<[loader |-> "css-loader"]>>)
  \o (IF findIndex(preset, "scss") # -1 THEN <<[loader |-> "sass-loader"]>> ELSE <<>>)
  \o (IF findIndex(preset, "tailwind") # -1 THEN <<[loader |-> "postcss-loader"]>> ELSE <<>>)

getStyleLoaders(preset, dev) ==
  LET c0 == <<[loader |-> IF dev THEN "style-loader" ELSE "MiniCssExtractPlugin.loader"]>>
      c1 == IF findIndex(preset, "css-modules") # -1
              THEN Append(c0, cssModulesLoader)
              ELSE Append(c0, [loader |-> "css-loader"])
      c2 == IF findIndex(preset, "tailwind") # -1
              THEN Append(c1, [loader |-> "postcss-loader"])
              ELSE c1
      c3 == IF findIndex(preset, "scss") # -1
              THEN Append(c2, [loader |-> "sass-loader"])
              ELSE c2
  IN  c3

\* lines 96-102: the presets handed on to the style loader chains
stylesPresetOf(addSupportFiles) ==
  LET s0 == <<>>
      s1 == IF findIndex(addSupportFiles, "tailwind") # -1
              THEN Append(s0, "tailwind") ELSE s0
      s2 == IF findIndex(addSupportFiles, "css-modules") # -1
              THEN Append(s1, "css-modules") ELSE s1
  IN  s2

babelUse(preset) == <<[loader |-> "babel-loader", options |-> getBabelOpts(preset)]>>

\* lines 103-134: the rules of the object literal
defaultRules(stylesPreset, dev) ==
  << [test |-> "/\\.css$/", use |-> getStyleLoaders(stylesPreset, dev)],
     [test |-> "/\\.(png|svg|jpg|jpeg|gif)$/",
      type |-> "asset/resource",
      generator |-> [filename |-> "assets/[name][ext]"]],
     [test |-> "/\\.(ttf|woff|eot|woff2)$/",
      type |-> "asset/resource",
      generator |-> [filename |-> "assets/fonts/[name][ext]"]],
     [test |-> "/\\.js$/", exclude |-> "/node_modules/", use |-> babelUse(<<>>)] >>

pushScssLoose(rules, addSupportFiles, stylesPreset, dev) ==
  IF findIndex(addSupportFiles, "scss") # -1 \/ findIndex(addSupportFiles, "less") # -1
    THEN Append(rules, [test |-> "/\\.s[ac]ss$/",
                        use |-> getStyleLoaders(Append(stylesPreset, "scss"), dev)])
    ELSE rules

\* lines 136-141
pushScss(rules, addSupportFiles, stylesPreset, dev) ==
  IF findIndex(addSupportFiles, "scss") # -1
    THEN Append(rules, [test |-> "/\\.s[ac]ss$/",
                        use |-> getStyleLoaders(Append(stylesPreset, "scss"), dev)])
    ELSE rules

\* one rule for every "xml" among the arguments
pushXmlEach(rules, addSupportFiles) ==
  rules \o [i \in 1..Len(SelectSeq(addSupportFiles, LAMBDA ext : ext = "xml")) |->
              [test |-> "/\\.xml$/", use |-> <<[loader |-> "xml-loader"]>>]]

\* lines 143-148
pushXml(rules, addSupportFiles) ==
  IF findIndex(addSupportFiles, "xml") # -1
    THEN Append(rules, [test |-> "/\\.xml$/", use |-> <<[loader |-> "xml-loader"]>>])
    ELSE rules

pushCsvMissing(rules, addSupportFiles) == rules

\* lines 150-155
pushCsv(rules, addSupportFiles) ==
  IF findIndex(addSupportFiles, "csv") # -1
    THEN Append(rules, [test |-> "/\\.csv$/", use |-> <<[loader |-> "csv-loader"]>>])
    ELSE rules

\* lines 157-168
pushTs(rules, addSupportFiles) ==
  IF findIndex(addSupportFiles, "ts") # -1
    THEN Append(rules, [test |-> "/\\.ts$/", exclude |-> "/node_modules/",
                        use |-> babelUse(<<"@babel/preset-typescript">>)])
    ELSE rules

pushReactNoTs(rules, addSupportFiles) ==
  IF findIndex(addSupportFiles, "react") # -1
    THEN Append(rules, [test |-> "/\\.[jt]sx$/", exclude |-> "/node_modules/",
                        use |-> babelUse(<<"@babel/preset-react">>)])
    ELSE rules

\* lines 169-186
pushReact(rules, addSupportFiles) ==
  IF findIndex(addSupportFiles, "react") # -1
    THEN LET l0 == <<"@babel/preset-react">>
             loaderOptions == IF findIndex(addSupportFiles, "ts") # -1
                                THEN Append(l0, "@babel/preset-typescript")
                                ELSE l0
         IN  Append(rules, [test |-> "/\\.[jt]sx$/", exclude |-> "/node_modules/",
                            use |-> babelUse(loaderOptions)])
    ELSE rules

getModuleRules(addSupportFiles, dev) ==
  LET stylesPreset == stylesPresetOf(addSupportFiles)
      r0 == defaultRules(stylesPreset, dev)
      r1 == pushScss(r0, addSupportFiles, stylesPreset, dev)
      r2 == pushXml(r1, addSupportFiles)
      r3 == pushCsv(r2, addSupportFiles)
      r4 == pushTs(r3, addSupportFiles)
      r5 == pushReact(r4, addSupportFiles)
  IN  [rules |-> r5]

\* lines 226-249: the plugin instances, by constructor
pluginsOf(dev) ==
  << [plugin |-> "HtmlWebpackPlugin",
      options |-> [template |-> "./index.html",
                   minify |-> [collapseWhitespace |-> IF dev THEN FALSE ELSE TRUE,
                               removeComments |-> IF dev THEN FALSE ELSE TRUE]]],
     [plugin |-> "CleanWebpackPlugin"],
     [plugin |-> "MiniCssExtractPlugin", options |-> [filename |-> "[name].[hash].css"]],
     [plugin |-> "Dotenv"] >>

entryOf(script) == [main |-> <<"@babel/polyfill", script>>]

resolveOf(extensions) == [extensions |-> extensions, alias |-> [at |-> "src"]]

(***************************************************************************)
(* The objects one call of the factory creates, in the order it creates    *)
(* them; a property that holds an object holds its index in this heap.     *)
(* The config object { rules: [...] } and its rules array are created      *)
(* together and are one cell.                                              *)
(***************************************************************************)
factoryHeap(dev) ==
  << entryOf("./index.js"),                                              \* 1  main.entry
     resolveOf(<<".js", ".scss", ".css">>),                              \* 2  main.resolve
     getOptimization(dev),                                               \* 3  main.optimization
     pluginsOf(dev),                                                     \* 4  main.plugins
     getModuleRules(<<"scss">>, dev),                                    \* 5  main.module
     entryOf("./index.js"),                                              \* 6
     entryOf("./index.js"),                                              \* 7
     getModuleRules(<<"scss", "tailwind">>, dev),                        \* 8
     entryOf("./index.tsx"),                                             \* 9
     resolveOf(<<".js", ".jsx", ".ts", ".tsx", ".scss", ".css">>),       \* 10
     getModuleRules(<<"scss", "react", "ts", "css-modules">>, dev),      \* 11
     entryOf("./index.tsx"),                                             \* 12
     resolveOf(<<".js", ".jsx", ".ts", ".tsx", ".scss", ".css">>),       \* 13
     getModuleRules(<<"scss", "react", "ts", "css-modules", "tailwind">>, dev) >>  \* 14

mainConfigOptions(modeDev) ==
  [entry |-> 1, mode |-> modeOf(modeDev), resolve |-> 2,
   optimization |-> 3, plugins |-> 4, module |-> 5]

variant1(main) == Spread(main, [name |-> "html-scss-js", entry |-> 6])

variant2SharedModule(main) ==
  Spread(main, [name |-> "html-scss-js-tailwind", entry |-> 7])

variant2(main) ==
  Spread(main, [name |-> "html-scss-js-tailwind", entry |-> 7, module |-> 8])

variant3(main) ==
  Spread(main, [name |-> "react-ts-scss-cssModules", entry |-> 9,
                resolve |-> 10, module |-> 11])

variant4(main) ==
  Spread(main, [name |-> "react-ts-scss-cssModules-tailwind", entry |-> 12,
                resolve |-> 13, module |-> 14])

(***************************************************************************)
(* src/webpack.config.js: one configuration, built when the file loads.    *)
(***************************************************************************)
getBabelOptsCfg(preset) ==
  LET opts == [presets |-> <<"@babel/preset-env">>]
  IN  IF Len(preset) > 0
        THEN [opts EXCEPT !.presets = @ \o preset]
        ELSE opts

getOptimizationCfg(dev) ==
  LET config == [splitChunks |-> [chunks |-> "all"]]
  IN  IF ~dev
        THEN Spread(config, [minimizer |-> <<"TerserWebpackPlugin">>])
        ELSE config

getStyleLoadersCfg(preset, dev) ==
  LET c0 == << [loader |-> IF dev THEN "style-loader" ELSE "MiniCssExtractPlugin.loader"],
               [loader |-> "css-loader"] >>
      c1 == IF findIndex(preset, "tailwind") # -1
              THEN Append(c0, [loader |-> "postcss-loader"])
              ELSE c0
      c2 == IF findIndex(preset, "scss") # -1
              THEN Append(c1, [loader |-> "sass-loader"])
              ELSE c1
  IN  c2

babelUseCfg(preset) ==
  <<[loader |-> "babel-loader", options |-> getBabelOptsCfg(preset)]>>

getModuleRulesCfg(addSupportFiles, dev) ==
  LET tailwindPreset == IF findIndex(addSupportFiles, "tailwind") # -1
                          THEN "tailwind" ELSE undefinedArg
      r0 == << [test |-> "/\\.css$/", use |-> getStyleLoadersCfg(<<tailwindPreset>>, dev)],
               [test |-> "/\\.(png|svg|jpg|jpeg|gif)$/", use |-> <<[loader |-> "file-loader"]>>],
               [test |-> "/\\.(ttf|woff|eot|woff2)$/", use |-> <<[loader |-> "file-loader"]>>],
               [test |-> "/\\.js$/", exclude |-> "/node_modules/", use |-> babelUseCfg(<<>>)] >>
      presets == IF findIndex(addSupportFiles, "tailwind") # -1
                   THEN <<"scss", "tailwind">> ELSE <<"scss">>
      r1 == IF findIndex(addSupportFiles, "scss") # -1
              THEN Append(r0, [test |-> "/\\.s[ac]ss$/",
                               use |-> getStyleLoadersCfg(presets, dev)])
              ELSE r0
      r2 == IF findIndex(addSupportFiles, "xml") # -1
              THEN Append(r1, [test |-> "/\\.xml$/", use |-> <<[loader |-> "xml-loader"]>>])
              ELSE r1
      r3 == IF findIndex(addSupportFiles, "csv") # -1
              THEN Append(r2, [test |-> "/\\.csv$/", use |-> <<[loader |-> "csv-loader"]>>])
              ELSE r2
      r4 == IF findIndex(addSupportFiles, "ts") # -1
              THEN Append(r3, [test |-> "/\\.ts$/", exclude |-> "/node_modules/",
                               use |-> babelUseCfg(<<"ts">>)])
              ELSE r3
      r5 == IF findIndex(addSupportFiles, "react") # -1
              THEN Append(r4, [test |-> "/\\.jsx$/", exclude |-> "/node_modules/",
                               use |-> babelUseCfg(<<"@babel/preset-react">>)])
              ELSE r4
  IN  [rules |-> r5]

pluginsCfg(dev) ==
  << [plugin |-> "HtmlWebpackPlugin",
      options |-> [template |-> "./src/index.html",
                   minify |-> [collapseWhitespace |-> IF dev THEN FALSE ELSE TRUE,
                               removeComments |-> IF dev THEN FALSE ELSE TRUE]]],
     [plugin |-> "CleanWebpackPlugin"],
     [plugin |-> "MiniCssExtractPlugin", options |-> [filename |-> "[name].[hash].css"]],
     [plugin |-> "webpack.DefinePlugin"] >>

configHeap(dev) ==
  << entryOf("./src/index.js"),
     resolveOf(<<".js", ".jsx", ".ts", ".tsx", ".scss", ".css">>),
     getOptimizationCfg(dev),
     pluginsCfg(dev),
     getModuleRulesCfg(<<"scss">>, dev) >>

configExports(modeDev) ==
  [entry |-> 1, mode |-> modeOf(modeDev), resolve |-> 2,
   optimization |-> 3, plugins |-> 4, module |-> 5]

(***************************************************************************)
(* Inputs.                                                                 *)
(***************************************************************************)
\* values of env.MODE / process.env.MODE
Modes ==
  {Undefined, Str("development"), Str("dev"), Str("production"), Str("")}

\* the flags the code names, and two it does not
SupportedFlags == {"scss", "tailwind", "css-modules", "ts", "react", "xml", "csv"}

Flags == SupportedFlags \cup {"less", "SCSS"}

FlagOrder ==
  <<"scss", "tailwind", "css-modules", "ts", "react", "xml", "csv", "less", "SCSS">>

Ordered(S) == SelectSeq(FlagOrder, LAMBDA f : f \in S)

Reverse(s) == [i \in 1..Len(s) |-> s[Len(s) + 1 - i]]

SeqsUpTo(S, n) == UNION {[1..k -> S] : k \in 0..n}

\* every set of flags in one order, and in the opposite order with a flag
\* repeated; and every short list
FlagLists ==
  SeqsUpTo(Flags, MaxLen)
  \cup {Ordered(S) : S \in SUBSET Flags}
  \cup {Reverse(Ordered(S)) \o <<Ordered(S)[1]>> : S \in (SUBSET Flags) \ {{}}}

PresetLists == SeqsUpTo({"scss", "tailwind", "css-modules", undefinedArg}, MaxPresets)

\* rules a consumer of the configuration may add to a rule table
ExtraRules ==
  { [test |-> "/\\.md$/", use |-> <<[loader |-> "raw-loader"]>>],
    [test |-> "/\\.txt$/", use |-> <<[loader |-> "raw-loader"]>>] }

(***************************************************************************)
(* The state machine.                                                      *)
(***************************************************************************)
Init ==
  /\ file = "none"
  /\ MODE = Undefined
  /\ isDev = FALSE
  /\ MODE_DEV = Undefined
  /\ heap = <<>>
  /\ exported = <<>>
  /\ call = [fn |-> "none"]
  /\ pushes = 0
  /\ lastPush = 0

\* the bundler calls module.exports(env) with env.MODE = m
LoadFactory(m) ==
  /\ file = "none"
  /\ file' = "factory"
  /\ MODE' = m
  /\ isDev' = isDevOf(m)
  /\ MODE_DEV' = MODE_DEV_of(isDev')
  /\ heap' = factoryHeap(isDev')
  /\ exported' = LET main == mainConfigOptions(MODE_DEV')
                 IN  <<variant1(main), variant2(main), variant3(main), variant4(main)>>
  /\ UNCHANGED <<call, pushes, lastPush>>

\* the bundler loads src/webpack.config.js with process.env.MODE = m
LoadConfig(m) ==
  /\ file = "none"
  /\ file' = "config"
  /\ MODE' = m
  /\ isDev' = isDevOf(m)
  /\ MODE_DEV' = MODE_DEV_of(isDev')
  /\ heap' = configHeap(isDev')
  /\ exported' = <<configExports(MODE_DEV')>>
  /\ UNCHANGED <<call, pushes, lastPush>>

CallModuleRules ==
  /\ file = "factory"
  /\ call.fn = "none"
  /\ \E flags \in FlagLists :
       call' = [fn |-> "getModuleRules", args |-> flags,
                result |-> getModuleRules(flags, isDev)]
  /\ UNCHANGED <<file, MODE, isDev, MODE_DEV, heap, exported, pushes, lastPush>>

CallStyleLoaders ==
  /\ file = "factory"
  /\ call.fn = "none"
  /\ \E preset \in PresetLists :
       call' = [fn |-> "getStyleLoaders", args |-> preset,
                result |-> getStyleLoaders(preset, isDev)]
  /\ UNCHANGED <<file, MODE, isDev, MODE_DEV, heap, exported, pushes, lastPush>>

CallModuleRulesCfg ==
  /\ file = "config"
  /\ call.fn = "none"
  /\ \E flags \in FlagLists :
       call' = [fn |-> "getModuleRules", args |-> flags,
                result |-> getModuleRulesCfg(flags, isDev)]
  /\ UNCHANGED <<file, MODE, isDev, MODE_DEV, heap, exported, pushes, lastPush>>

CallStyleLoadersCfg ==
  /\ file = "config"
  /\ call.fn = "none"
  /\ \E preset \in PresetLists :
       call' = [fn |-> "getStyleLoaders", args |-> preset,
                result |-> getStyleLoadersCfg(preset, isDev)]
  /\ UNCHANGED <<file, MODE, isDev, MODE_DEV, heap, exported, pushes, lastPush>>

\* the caller is done with the value the call returned
Return ==
  /\ call.fn # "none"
  /\ call' = [fn |-> "none"]
  /\ UNCHANGED <<file, MODE, isDev, MODE_DEV, heap, exported, pushes, lastPush>>

\* a consumer of the returned array pushes a rule onto variant v's rule table
PushRule(v, r) ==
  /\ file = "factory"
  /\ pushes < MaxPush
  /\ v \in 1..Len(exported)
  /\ heap' = [heap EXCEPT ![exported[v].module].rules = Append(@, r)]
  /\ pushes' = pushes + 1
  /\ lastPush' = v
  /\ UNCHANGED <<file, MODE, isDev, MODE_DEV, exported, call>>

Next ==
  \/ \E m \in Modes : LoadFactory(m)
  \/ \E m \in Modes : LoadConfig(m)
  \/ CallModuleRules
  \/ CallStyleLoaders
  \/ CallModuleRulesCfg
  \/ CallStyleLoadersCfg
  \/ Return

Spec == Init /\ [][Next]_vars

NextVariants ==
  \/ \E m \in Modes : LoadFactory(m)
  \/ \E v \in 1..4, r \in ExtraRules : PushRule(v, r)

SpecVariants == Init /\ [][NextVariants]_vars

(***************************************************************************)
(* Vocabulary of the properties.                                           *)
(***************************************************************************)
Range(s) == {s[i] : i \in DOMAIN s}

Tests(rules) == [i \in DOMAIN rules |-> rules[i].test]

Loaders(chain) == [i \in DOMAIN chain |-> chain[i].loader]

Count(s, x) == Cardinality({i \in DOMAIN s : s[i] = x})

IsModuleCall == file # "none" /\ call.fn = "getModuleRules"

IsStyleCall == file # "none" /\ call.fn = "getStyleLoaders"

TsPreset == "@babel/preset-typescript"

ReactPreset == "@babel/preset-react"

CssTest == "/\\.css$/"

ImageTest == "/\\.(png|svg|jpg|jpeg|gif)$/"

FontTest == "/\\.(ttf|woff|eot|woff2)$/"

ScriptTest == "/\\.js$/"

ScssTest == "/\\.s[ac]ss$/"

\* the file pattern of the component-syntax rule in each of the two files
ReactTests == {"/\\.[jt]sx$/", "/\\.jsx$/"}

\* the flags that have a rule of their own, in the order the rules are added
RuleFlagOrder == <<"scss", "xml", "csv", "ts", "react">>

TestOfFlag(f) ==
  CASE f = "scss" -> ScssTest
    [] f = "xml" -> "/\\.xml$/"
    [] f = "csv" -> "/\\.csv$/"
    [] f = "ts" -> "/\\.ts$/"
    [] f = "react" -> IF file = "factory" THEN "/\\.[jt]sx$/" ELSE "/\\.jsx$/"

\* the chains of style loaders a rule table holds
StyleChains(rules) ==
  {rules[i].use : i \in {j \in DOMAIN rules : rules[j].test \in {CssTest, ScssTest}}}

RulesWithTest(rules, tests) == {i \in DOMAIN rules : rules[i].test \in tests}

PluginNames(plugins) == {plugins[i].plugin : i \in DOMAIN plugins}

\* the flag combination a variant's name announces
variantFlags(name) ==
  CASE name = "html-scss-js" -> {"scss"}
    [] name = "html-scss-js-tailwind" -> {"scss", "tailwind"}
    [] name = "react-ts-scss-cssModules" -> {"react", "ts", "scss", "css-modules"}
    [] name = "react-ts-scss-cssModules-tailwind" ->
         {"react", "ts", "scss", "css-modules", "tailwind"}
    [] OTHER -> {}

Table(v) == heap[exported[v].module]

(***************************************************************************)
(* C1                                                                      *)
(***************************************************************************)
\* C1 (as stated): the rule table of every getModuleRules call is the three
\* default rules (image, font, script) plus one rule per supported flag passed,
\* and nothing else.
C1_ThreeDefaultsPlusOnePerFlag ==
  IsModuleCall =>
    LET rules == call.result.rules
    IN  /\ Len(rules) = 3 + Cardinality(Range(call.args) \cap SupportedFlags)
        /\ SubSeq(Tests(rules), 1, 3) = <<ImageTest, FontTest, ScriptTest>>

\* C1 (amended): the rule table of every getModuleRules call is the four
\* default rules (css, image, font, script) followed by one rule for each of the
\* flags scss, xml, csv, ts, react that was passed, in that order, and nothing
\* else; tailwind and css-modules add no rule.
C1_FourDefaultsPlusOnePerRuleFlag ==
  IsModuleCall =>
    LET rules == call.result.rules
        passed == SelectSeq(RuleFlagOrder, LAMBDA f : f \in Range(call.args))
    IN  Tests(rules) = <<CssTest, ImageTest, FontTest, ScriptTest>>
                         \o [i \in DOMAIN passed |-> TestOfFlag(passed[i])]

C1_Witness ==
  /\ IsModuleCall
  /\ file = "factory"
  /\ {"tailwind", "css-modules", "csv", "react"} \subseteq Range(call.args)
  /\ Len(call.result.rules) = 6

(***************************************************************************)
(* C2                                                                      *)
(***************************************************************************)
\* C2: the mode of every produced configuration is development exactly when
\* MODE is "development" or "dev" and production otherwise; in development no
\* minimizer is configured, in production the Terser minimizer is.
C2_ModeAndMinification ==
  file # "none" =>
    \A v \in DOMAIN exported :
      LET optimization == heap[exported[v].optimization]
      IN  /\ exported[v].mode =
               IF MODE \in {Str("development"), Str("dev")}
                 THEN "development" ELSE "production"
          /\ exported[v].mode = "development" =>
               "minimizer" \notin DOMAIN optimization
          /\ exported[v].mode = "production" =>
               /\ "minimizer" \in DOMAIN optimization
               /\ optimization.minimizer = <<"TerserWebpackPlugin">>

C2_Witness ==
  /\ file = "factory"
  /\ MODE = Undefined
  /\ exported[4].mode = "production"
  /\ "minimizer" \in DOMAIN heap[exported[4].optimization]

(***************************************************************************)
(* C3                                                                      *)
(***************************************************************************)
\* C3: in the rule table of every getModuleRules call whose flags hold "react",
\* the component-syntax rule's preset list holds the typed-syntax preset
\* exactly once when "ts" is among the flags too, and not at all otherwise.
C3_TsPresetOnceInReactRule ==
  (IsModuleCall /\ "react" \in Range(call.args)) =>
    LET rules == call.result.rules
        react == RulesWithTest(rules, ReactTests)
    IN  /\ Cardinality(react) = 1
        /\ \A i \in react :
             Count(rules[i].use[1].options.presets, TsPreset) =
               IF "ts" \in Range(call.args) THEN 1 ELSE 0

\* C3, of the factory alone (src/unnamed/part_000)
C3_TsPresetOnceInFactory == file = "factory" => C3_TsPresetOnceInReactRule

C3_FactoryWitness ==
  /\ IsModuleCall
  /\ file = "factory"
  /\ Count(call.args, "ts") = 2
  /\ "react" \in Range(call.args)

(***************************************************************************)
(* C4                                                                      *)
(***************************************************************************)
ExtractOnly(rules, plugins) ==
  /\ \A chain \in StyleChains(rules) :
       /\ Count(Loaders(chain), "style-loader") = 0
       /\ Loaders(chain)[1] = "MiniCssExtractPlugin.loader"
  /\ "MiniCssExtractPlugin" \in PluginNames(plugins)

\* C4 (as stated): with flags {scss} in production the rule table is exactly
\* [image, font, script, stylesheet], the stylesheet chain carries the
\* preprocessor only, and styles are extracted, never injected inline.
C4_ScssProductionFourRules ==
  (file = "factory" /\ IsModuleCall /\ ~isDev /\ Range(call.args) = {"scss"}) =>
    LET rules == call.result.rules
    IN  /\ Tests(rules) = <<ImageTest, FontTest, ScriptTest, ScssTest>>
        /\ rules[Len(rules)].use =
             << [loader |-> "MiniCssExtractPlugin.loader"],
                [loader |-> "css-loader"], [loader |-> "sass-loader"] >>
        /\ ExtractOnly(rules, heap[exported[1].plugins])

\* C4 (amended): with flags {scss} in production the rule table is exactly
\* [css, image, font, script, scss]; the scss chain is extraction, css-loader
\* and the preprocessor only, the css chain is extraction and css-loader; styles
\* are extracted (loader and plugin), never injected inline; it is the table of
\* the variant html-scss-js.
C4_ScssProductionFiveRules ==
  (file = "factory" /\ IsModuleCall /\ ~isDev /\ Range(call.args) = {"scss"}) =>
    LET rules == call.result.rules
    IN  /\ Tests(rules) = <<CssTest, ImageTest, FontTest, ScriptTest, ScssTest>>
        /\ rules[5].use =
             << [loader |-> "MiniCssExtractPlugin.loader"],
                [loader |-> "css-loader"], [loader |-> "sass-loader"] >>
        /\ rules[1].use =
             << [loader |-> "MiniCssExtractPlugin.loader"], [loader |-> "css-loader"] >>
        /\ ExtractOnly(rules, heap[exported[1].plugins])
        /\ Table(1).rules = rules

C4_Witness ==
  /\ file = "factory"
  /\ IsModuleCall
  /\ MODE = Str("production")
  /\ call.args = <<"scss">>
  /\ exported[1].mode = "production"

(***************************************************************************)
(* C5                                                                      *)
(***************************************************************************)
\* C5: with flags {react, ts, scss, css-modules} in development the rule table
\* holds a stylesheet rule whose css-loader has CSS modules switched on, and one
\* single rule for component-syntax files whose presets hold both the
\* component-syntax and the typed-syntax preset.
C5_ReactTsScssCssModulesDev ==
  (file = "factory" /\ IsModuleCall /\ isDev
     /\ Range(call.args) = {"react", "ts", "scss", "css-modules"}) =>
    LET rules == call.result.rules
        scss == RulesWithTest(rules, {ScssTest})
        react == RulesWithTest(rules, ReactTests)
    IN  /\ Cardinality(scss) = 1
        /\ \A i \in scss :
             \E k \in DOMAIN rules[i].use :
               /\ rules[i].use[k].loader = "css-loader"
               /\ "options" \in DOMAIN rules[i].use[k]
               /\ "modules" \in DOMAIN rules[i].use[k].options
        /\ Cardinality(react) = 1
        /\ \A i \in react :
             /\ rules[i].test = "/\\.[jt]sx$/"
             /\ Count(rules[i].use[1].options.presets, ReactPreset) = 1
             /\ Count(rules[i].use[1].options.presets, TsPreset) = 1

C5_Witness ==
  /\ file = "factory"
  /\ IsModuleCall
  /\ MODE = Str("dev")
  /\ Range(call.args) = {"react", "ts", "scss", "css-modules"}
  /\ Len(call.args) = 5

(***************************************************************************)
(* C6                                                                      *)
(***************************************************************************)
\* other ways of listing the set S of flags: in the canonical order, in the
\* opposite order, and with every flag given twice
Arrangements(S) ==
  {Ordered(S), Reverse(Ordered(S)), Ordered(S) \o Reverse(Ordered(S))}

\* C6: the result of a getModuleRules call is decided by the mode and the set
\* of flags alone: it is the result for the same set listed in any other order
\* or with repetitions, it is the very table the factory built for a variant
\* with that set of flags before any of the calls made since, and no call
\* changes the closure's variables or an object built earlier.
C6_PureInModeAndFlagSet ==
  /\ [](  (file = "factory" /\ IsModuleCall) =>
            /\ \A q \in Arrangements(Range(call.args)) :
                 call.result = getModuleRules(q, isDev)
            /\ \A v \in DOMAIN exported :
                 Range(call.args) = variantFlags(exported[v].name) =>
                   call.result = Table(v)  )
  /\ [][ call' # call =>
           UNCHANGED <<file, MODE, isDev, MODE_DEV, heap, exported>> ]_vars

C6_Witness ==
  /\ file = "factory"
  /\ IsModuleCall
  /\ call.args = <<"tailwind", "scss", "scss">>
  /\ call.result = Table(2)

(***************************************************************************)
(* C7                                                                      *)
(***************************************************************************)
\* C7: the factory returns four variants with pairwise distinct names; no two
\* of them hold the same rule table object; each one's table is the table of
\* the flag combination its name announces; and a rule pushed onto one
\* variant's table leaves the table of every other variant as it was.
C7_VariantsOwnTheirRuleTables ==
  /\ [](  file = "factory" =>
            /\ Len(exported) = 4
            /\ \A v, w \in DOMAIN exported :
                 v # w => /\ exported[v].name # exported[w].name
                          /\ exported[v].module # exported[w].module
            /\ pushes = 0 =>
                 \A v \in DOMAIN exported :
                   Table(v) = getModuleRules(Ordered(variantFlags(exported[v].name)), isDev)  )
  /\ [][ (file = "factory" /\ pushes' = pushes + 1) =>
           /\ Len(heap'[exported[lastPush'].module].rules) = Len(Table(lastPush').rules) + 1
           /\ \A w \in DOMAIN exported :
                w # lastPush' => heap'[exported[w].module] = Table(w) ]_vars

C7_Witness ==
  /\ file = "factory"
  /\ pushes = 2
  /\ lastPush = 2
  /\ Len(Table(2).rules) = 6
  /\ Len(Table(1).rules) = 6

(***************************************************************************)
(* C8                                                                      *)
(***************************************************************************)
\* the rule table of a call that names no flag the code knows
MinimalRules(dev) ==
  LET first == [loader |-> IF dev THEN "style-loader" ELSE "MiniCssExtractPlugin.loader"]
  IN  << [test |-> CssTest, use |-> <<first, [loader |-> "css-loader"]>>],
         [test |-> ImageTest, type |-> "asset/resource",
          generator |-> [filename |-> "assets/[name][ext]"]],
         [test |-> FontTest, type |-> "asset/resource",
          generator |-> [filename |-> "assets/fonts/[name][ext]"]],
         [test |-> ScriptTest, exclude |-> "/node_modules/",
          use |-> <<[loader |-> "babel-loader",
                     options |-> [presets |-> <<"@babel/preset-env">>]]>>] >>

\* C8: flags outside the seven the code names change nothing: the rule table
\* of a call is the table of the same list with those flags left out, and a
\* list holding none of the seven (the empty list too) yields the minimal
\* default table.
C8_UnrecognizedFlagsIgnored ==
  (file = "factory" /\ IsModuleCall) =>
    /\ call.result =
         getModuleRules(SelectSeq(call.args, LAMBDA f : f \in SupportedFlags), isDev)
    /\ Range(call.args) \cap SupportedFlags = {} =>
         call.result.rules = MinimalRules(isDev)

C8_Witness ==
  /\ file = "factory"
  /\ IsModuleCall
  /\ call.args = <<"less", "scss", "SCSS">>
  /\ Len(call.result.rules) = 5

(***************************************************************************)
(* C9                                                                      *)
(***************************************************************************)
\* what C9 says of one chain of style loaders
WellOrderedChain(chain) ==
  LET names == Loaders(chain)
  IN  /\ Len(names) >= 2
      /\ names[1] = IF isDev THEN "style-loader" ELSE "MiniCssExtractPlugin.loader"
      /\ Count(names, "style-loader") + Count(names, "MiniCssExtractPlugin.loader") = 1
      /\ names[2] = "css-loader"
      /\ Count(names, "css-loader") = 1
      /\ \A i, j \in DOMAIN names :
           (names[i] = "postcss-loader" /\ names[j] = "sass-loader") => i < j

\* C9: every chain getStyleLoaders returns, for any preset list, starts with
\* the injection loader in development and the extraction loader in production
\* (never both), has css-loader next and once, and lists postcss-loader before
\* sass-loader when it has both, whatever the order of the presets; a rule
\* table has the scss rule exactly when "scss" is among the flags.
C9_StyleChainOrder ==
  /\ IsStyleCall =>
       /\ WellOrderedChain(call.result)
       /\ Count(Loaders(call.result), "postcss-loader") =
            IF "tailwind" \in Range(call.args) THEN 1 ELSE 0
       /\ Count(Loaders(call.result), "sass-loader") =
            IF "scss" \in Range(call.args) THEN 1 ELSE 0
  /\ IsModuleCall =>
       /\ \A chain \in StyleChains(call.result.rules) : WellOrderedChain(chain)
       /\ Count(Tests(call.result.rules), ScssTest) =
            IF "scss" \in Range(call.args) THEN 1 ELSE 0

C9_Witness ==
  /\ file = "factory"
  /\ IsStyleCall
  /\ call.args = <<"scss", "css-modules", "tailwind">>
  /\ Loaders(call.result) =
       <<"style-loader", "css-loader", "postcss-loader", "sass-loader">>

(***************************************************************************)
(* C10                                                                     *)
(***************************************************************************)
\* C10: no rule table returned by getModuleRules holds two rules with the same
\* file pattern, whatever the flags, their order and their repetition.
C10_NoTwoRulesWithOnePattern ==
  IsModuleCall =>
    \A i, j \in DOMAIN call.result.rules :
      i # j => call.result.rules[i].test # call.result.rules[j].test

C10_Witness ==
  /\ file = "factory"
  /\ IsModuleCall
  /\ call.args = <<"xml", "scss", "xml">>
  /\ Len(call.result.rules) = 6

====
